---- MODULE Spec2Model ----
(***************************************************************************)
(* bigsky-agent: backup rotation, storage providers, chunked upload, file  *)
(* router and retrying upload orchestrator, modelled from                  *)
(* 05_Automation/Scripts.  Every subsystem is a set of handlers over its   *)
(* own variables; a specification per subsystem (SpecRotation, ...) runs   *)
(* that subsystem's handlers and leaves the other variables alone.         *)
(***************************************************************************)
EXTENDS Integers, Sequences, FiniteSets, TLC

VARIABLES
    \* ---- local backup rotation (cleanup_old_backups.py)
    working,        \* bundles matching the prefix pattern in the backup folder
    archive,        \* bundles matching the prefix pattern in backup folder/Archive
    working_keep,   \* BACKUP_CONFIG["max_working_backups"]
    archive_keep,   \* BACKUP_CONFIG["max_archive_backups"]
    rot,            \* record of the last rotation run (history)
    \* ---- chunked upload (upload_backup_chunked.py)
    bundle,         \* the latest bundle on disk: path and size
    resume_file,    \* the persisted upload state (or NoStateFile)
    chunk_files,    \* numbers n of the temporary .chunk_<n> files on disk
    remote_chunks,  \* numbers of the bundle's chunks the backend has accepted
    up,             \* the running ChunkedUploader (fields and position)
    \* ---- storage providers (storage_providers/*.py)
    provider,       \* the provider object: variant, construction, session
    store,          \* what the backend holds: folders and files
    last,           \* the last provider operation and its outcome (history)
    \* ---- file router (router.py)
    dropzone,       \* files of the DropZone folder: name and content
    dest,           \* files of each destination folder: name and content
    router,         \* the FileRouter object: counters, lists and position
    \* ---- retrying upload orchestrator (upload_backup.py)
    orch            \* the run of run_backup_upload: position and call history

rotVars == <<working, archive, working_keep, archive_keep, rot>>
chunkVars == <<bundle, resume_file, chunk_files, remote_chunks, up>>
provVars == <<provider, store, last>>
routerVars == <<dropzone, dest, router>>

vars == <<working, archive, working_keep, archive_keep, rot,
          bundle, resume_file, chunk_files, remote_chunks, up,
          provider, store, last, dropzone, dest, router, orch>>

\* what the handlers of one subsystem leave alone
exceptRotation == <<chunkVars, provVars, routerVars, orch>>
exceptChunked == <<rotVars, provVars, routerVars, orch>>
exceptProvider == <<rotVars, chunkVars, routerVars, orch>>
exceptRouter == <<rotVars, chunkVars, provVars, orch>>
exceptRetry == <<rotVars, chunkVars, provVars, routerVars>>

(***************************************************************************)
(* Generic helpers                                                         *)
(***************************************************************************)

\* Python's s[k:] on a list
Drop(s, k) == IF k >= Len(s) THEN <<>> ELSE SubSeq(s, k + 1, Len(s))

\* Python's s[:k] on a list
Take(s, k) == IF k >= Len(s) THEN s ELSE SubSeq(s, 1, k)

Range(s) == {s[i] : i \in 1..Len(s)}

Min(a, b) == IF a <= b THEN a ELSE b

\* every ordering of the finite set S as a sequence without repetition
Orderings(S) ==
    {s \in [1..Cardinality(S) -> S] : \A i, j \in 1..Cardinality(S) : i # j => s[i] # s[j]}

(***************************************************************************)
(* Local backup rotation: cleanup_old_backups.py                           *)
(***************************************************************************)

MaxBundles == 2     \* distinct bundle names {prefix}_{timestamp}.zip
MaxTime == 2        \* distinct modification times
MaxKeep == 1        \* largest configured keep limit explored
MaxArchived == 1    \* bundles in Archive before the first run
MaxFaults == 1      \* files whose rename/unlink raises during one run

BundleNames == 1..MaxBundles
Times == 1..MaxTime
BundleFile == [name : BundleNames, mtime : Times]

NamesOf(dir) == {f.name : f \in dir}

\* a folder holds at most one file of a given name
IsFolder(dir) == \A f, g \in dir : f.name = g.name => f = g
Folders == {dir \in SUBSET BundleFile : IsFolder(dir)}

\* the same sort without reverse=True (oldest first)
SortedOldestFirst(dir) ==
    {s \in Orderings(dir) : \A i, j \in 1..Len(s) : i < j => s[i].mtime <= s[j].mtime}

\* sorted(glob(pattern), key=st_mtime, reverse=True): newest first; files of
\* equal mtime keep glob's order, which the filesystem chooses
SortedNewestFirst(dir) ==
    {s \in Orderings(dir) : \A i, j \in 1..Len(s) : i < j => s[i].mtime >= s[j].mtime}

\* a move loop whose rename replaces a file of the same name in Archive
RECURSIVE MoveToArchive_overwrite(_, _, _, _)
MoveToArchive_overwrite(to_archive, w, a, failing) ==
    IF to_archive = <<>> THEN [w |-> w, a |-> a]
    ELSE LET old_zip == Head(to_archive)
         IN  IF old_zip.name \in failing
             THEN MoveToArchive_overwrite(Tail(to_archive), w, a, failing)
             ELSE MoveToArchive_overwrite(Tail(to_archive), w \ {old_zip},
                        {g \in a : g.name # old_zip.name} \cup {old_zip}, failing)

\* the loop "for old_zip in to_archive": rename into Archive unless a file of
\* that name is already there; a rename that raises is logged and skipped
RECURSIVE MoveToArchive(_, _, _, _)
MoveToArchive(to_archive, w, a, failing) ==
    IF to_archive = <<>> THEN [w |-> w, a |-> a]
    ELSE LET old_zip == Head(to_archive)
             target_exists == old_zip.name \in NamesOf(a)
         IN  IF target_exists \/ old_zip.name \in failing
             THEN MoveToArchive(Tail(to_archive), w, a, failing)
             ELSE MoveToArchive(Tail(to_archive), w \ {old_zip}, a \cup {old_zip}, failing)

\* the loop "for old in to_delete": unlink; an unlink that raises is logged
\* and skipped
RECURSIVE PruneArchive(_, _, _, _)
PruneArchive(to_delete, a, gone, failing) ==
    IF to_delete = <<>> THEN [a |-> a, gone |-> gone]
    ELSE LET old == Head(to_delete)
         IN  IF old.name \in failing
             THEN PruneArchive(Tail(to_delete), a, gone, failing)
             ELSE PruneArchive(Tail(to_delete), a \ {old}, gone \cup {old}, failing)

\* zips[working_keep:]
ToArchive(zips, keep) == Drop(zips, keep)

\* archives[archive_keep:]
ToDelete(archives, keep) == Drop(archives, keep)

FaultSets == {F \in SUBSET BundleNames : Cardinality(F) <= MaxFaults}

\* history of the runs: gone holds the names deleted by any run so far,
\* created tells that a bundle was written since the last run
NoRun == [runs |-> 0, preWorking |-> {}, preArchive |-> {}, deleted |-> {},
          failing |-> {}, gone |-> {}, created |-> FALSE, result |-> "none"]

RotationState ==
    /\ working \in Folders
    /\ archive \in {a \in Folders : Cardinality(a) <= MaxArchived}
    /\ working_keep \in 0..MaxKeep
    /\ archive_keep \in 0..MaxKeep
    /\ rot = NoRun

\* cleanup_old_backups(): one whole rotation run
RotationRun ==
    /\ IF working = {}
       THEN \* "No backup files found": return True before touching Archive
            /\ rot' = [NoRun EXCEPT !.runs = rot.runs + 1, !.preWorking = working,
                                    !.preArchive = archive, !.gone = rot.gone,
                                    !.result = "true"]
            /\ UNCHANGED <<working, archive>>
       ELSE \E zips \in SortedNewestFirst(working), failing \in FaultSets :
              LET moved == MoveToArchive(ToArchive(zips, working_keep),
                                         working, archive, failing)
              IN  \E archives \in SortedNewestFirst(moved.a) :
                    LET pruned == PruneArchive(ToDelete(archives, archive_keep),
                                               moved.a, {}, failing)
                    IN  /\ working' = moved.w
                        /\ archive' = pruned.a
                        /\ rot' = [runs |-> rot.runs + 1, preWorking |-> working,
                                   preArchive |-> archive, deleted |-> pruned.gone,
                                   failing |-> failing,
                                   gone |-> rot.gone \cup NamesOf(pruned.gone),
                                   created |-> FALSE, result |-> "true"]
    /\ UNCHANGED <<working_keep, archive_keep, exceptRotation>>

\* one invocation from every initial content
cleanup_old_backups ==
    /\ rot.runs = 0
    /\ RotationRun

MaxRuns == 2        \* rotation runs in a sequence of runs and creations

\* an installation before its first bundle
FreshRotationState ==
    /\ working = {} /\ archive = {}
    /\ working_keep \in 0..MaxKeep
    /\ archive_keep \in 0..MaxKeep
    /\ rot = NoRun

\* cleanup_old_backups() as one of several invocations
scheduled_cleanup ==
    /\ rot.runs < MaxRuns
    /\ RotationRun

\* create_backup_zip.main(): the name is the local time to the minute, so a
\* second creation in the same minute, or after the clock was set back, has a
\* name used before; zip -r onto an existing file updates it in place. The
\* bundle's mtime is not older than that of any bundle written before. The
\* record of the last run's effects ends with the creation.
create_backup_zip ==
    /\ \E name \in BundleNames, mtime \in Times :
         /\ \A f \in working \cup archive : f.mtime <= mtime
         /\ working' = {f \in working : f.name # name}
                           \cup {[name |-> name, mtime |-> mtime]}
    /\ working' # working
    /\ rot' = [NoRun EXCEPT !.runs = rot.runs, !.gone = rot.gone, !.created = TRUE,
                            !.result = rot.result]
    /\ UNCHANGED <<archive, working_keep, archive_keep, exceptRotation>>

RotationCycleNext ==
    \/ scheduled_cleanup
    \/ create_backup_zip


\* ---- properties of one rotation run

RotationReturned == rot.runs > 0
NoRotationFault == rot.failing = {}

\* number of files of dir strictly newer than f
NewerThan(f, dir) == Cardinality({g \in dir : g.mtime > f.mtime})

DistinctMtimes(dir) == \A f, g \in dir : f.mtime = g.mtime => f = g

\* C1: after cleanup_old_backups() returns, whatever the two folders held
\* before: at most max_working_backups bundles are in the working folder, at
\* most max_archive_backups are in Archive, and every bundle name present
\* before is still in one of the two tiers unless it was deleted as archive
\* overflow.  (Stated for runs in which no rename or unlink raised.)
C1_RotationBounds ==
    (RotationReturned /\ NoRotationFault) =>
        /\ Cardinality(working) <= working_keep
        /\ Cardinality(archive) <= archive_keep
        /\ NamesOf(rot.preWorking) \cup NamesOf(rot.preArchive)
              \subseteq NamesOf(working) \cup NamesOf(archive) \cup NamesOf(rot.deleted)

\* C2: from N bundles of distinct mtimes in the working folder and an empty
\* Archive, a rotation run in which no rename or unlink raises leaves exactly
\* the working_keep newest in the working folder, the next archive_keep newest
\* in Archive, and deletes every older one.
C2_RotationSplit ==
    (/\ RotationReturned /\ NoRotationFault
     /\ rot.preArchive = {} /\ DistinctMtimes(rot.preWorking)) =>
        LET pre == rot.preWorking
        IN  /\ working = {f \in pre : NewerThan(f, pre) < working_keep}
            /\ archive = {f \in pre : /\ NewerThan(f, pre) >= working_keep
                                       /\ NewerThan(f, pre) < working_keep + archive_keep}
            /\ rot.deleted = {f \in pre : NewerThan(f, pre) >= working_keep + archive_keep}

\* a run that kept the newest bundle, archived none and deleted the older one,
\* or archived the newest and deleted the older one
C2_Witness ==
    /\ RotationReturned /\ NoRotationFault
    /\ rot.preArchive = {} /\ DistinctMtimes(rot.preWorking)
    /\ Cardinality(rot.preWorking) >= 2
    /\ working_keep + archive_keep = 1
    /\ rot.deleted # {}
    /\ working \cup archive # {}

\* C25: in a rotation run a working bundle whose name exists in Archive is
\* not moved, and the Archive file of that name is never replaced or changed
\* (it stays as it was or is deleted as overflow); a rename or unlink that
\* raises is skipped: the file stays where it was, the other bundles beyond
\* the limits are still moved and pruned, and the run returns True.
C25_CollisionAndFailureSkipped ==
    RotationReturned =>
        /\ \A f \in rot.preWorking : f.name \in NamesOf(rot.preArchive) => f \in working
        /\ \A g \in archive : g.name \in NamesOf(rot.preArchive) => g \in rot.preArchive
        /\ \A f \in rot.preWorking : f.name \in rot.failing => f \in working
        /\ \A g \in rot.preArchive : g.name \in rot.failing => g \in archive
        /\ \A f \in rot.preWorking :
              (/\ f.name \notin rot.failing
               /\ f.name \notin NamesOf(rot.preArchive)
               /\ NewerThan(f, rot.preWorking) >= working_keep) => f \in archive \cup rot.deleted
        /\ rot.preWorking # {} =>
              Cardinality({g \in archive : g.name \notin rot.failing}) <= archive_keep
        /\ rot.result = "true"

\* a run with two bundles to archive: one has its name in Archive and stays,
\* the rename of the other raises; the Archive file is then pruned as overflow
C25_Witness ==
    /\ RotationReturned /\ rot.failing # {}
    /\ working_keep = 0 /\ Cardinality(rot.preWorking) = 2
    /\ working = rot.preWorking
    /\ \E f \in rot.preWorking : f.name \in NamesOf(rot.preArchive)
    /\ \E f \in rot.preWorking : f.name \in rot.failing /\ f.name \notin NamesOf(rot.preArchive)
    /\ rot.deleted = rot.preArchive /\ archive = {}

\* ---- properties of sequences of runs and creations

\* C26: across rotation runs interleaved with creations of bundles, starting
\* with no bundle name in both tiers, a bundle only advances working ->
\* archive -> deleted: no name is in the working folder and in Archive at
\* once, no name in Archive comes back to the working folder, and no deleted
\* name is present again.
C26_TiersOnlyAdvance ==
    /\ [](NamesOf(working) \cap NamesOf(archive) = {})
    /\ [](rot.gone \cap (NamesOf(working) \cup NamesOf(archive)) = {})
    /\ [][NamesOf(working') \cap NamesOf(archive) \subseteq NamesOf(working)]_vars

\* C28: a rotation run that follows a rotation run, with no bundle created in
\* between, moves nothing and deletes nothing: both folders stay as the first
\* run left them. (Stated for runs in which no rename or unlink raises and
\* for working folders without equal modification times.)
C28_RotationIdempotent ==
    [][(/\ rot.runs >= 1 /\ ~rot.created /\ rot.failing = {}
        /\ DistinctMtimes(working)
        /\ rot'.runs = rot.runs + 1 /\ rot'.failing = {})
       => working' = working /\ archive' = archive]_vars

(***************************************************************************)
(* Chunked, resumable upload: upload_backup_chunked.py                     *)
(***************************************************************************)

CHUNK_SIZE == 50 * 1024 * 1024
MAX_RETRIES == 3

MaxHalfChunks == 5   \* largest bundle, in halves of CHUNK_SIZE

\* The resume file and the temporary chunk files are file_path.with_suffix(..):
\* they are shared by the files of one directory that have the same stem, and
\* by no others. The model follows one stem: the bundle may be rewritten, and
\* the uploader may be given the other file of that stem.
HalfChunk == CHUNK_SIZE \div 2
BundlePath == "backup.zip"
OtherPath == "backup.bak"
FileSizes == {k * HalfChunk : k \in 1..MaxHalfChunks}
Bundles == [path : {BundlePath, OtherPath}, size : FileSizes]

\* calculate_chunks: read CHUNK_SIZE bytes at a time until the read is empty
RECURSIVE ChunksFrom(_, _)
ChunksFrom(chunk_num, left) ==
    IF left <= 0 THEN <<>>
    ELSE <<[number |-> chunk_num, size |-> Min(left, CHUNK_SIZE),
            offset |-> chunk_num * CHUNK_SIZE]>>
         \o ChunksFrom(chunk_num + 1, left - CHUNK_SIZE)

calculate_chunks(f) == ChunksFrom(0, f.size)

\* load_upload_state without the comparison of the recorded size
load_upload_state_any_size(state, file_path, file_size) ==
    IF ~state.exists THEN <<>>
    ELSE IF state.file_path = file_path
         THEN state.uploaded_chunks
         ELSE <<>>

\* load_upload_state that never resumes
load_upload_state_fresh(state, file_path, file_size) == <<>>

\* load_upload_state: the uploaded_chunks the uploader continues from
load_upload_state(state, file_path, file_size) ==
    IF ~state.exists THEN <<>>
    ELSE IF state.file_path = file_path /\ state.file_size = file_size
         THEN state.uploaded_chunks
         ELSE <<>>

\* save_upload_state: the record written to the resume file
save_upload_state(u) ==
    [exists |-> TRUE, file_path |-> u.file_path, file_size |-> u.file_size,
     uploaded_chunks |-> u.uploaded_chunks]

\* resume_file.exists() is false
NoStateFile == [exists |-> FALSE]

\* no uploader is running; found and called are history: the resume file the
\* run started from and the chunk numbers it called provider.upload_file for;
\* waits counts the time.sleep(RETRY_DELAY) calls of the current upload_chunk
Idle == [pc |-> "idle", file_path |-> "", file_size |-> 0,
         chunks |-> <<>>, uploaded_chunks |-> <<>>, idx |-> 0, attempt |-> 0,
         waits |-> 0,
         found |-> NoStateFile, called |-> {}, result |-> "none"]

ChunkedState ==
    /\ bundle \in Bundles
    /\ resume_file = NoStateFile
    /\ chunk_files = {}
    /\ remote_chunks = {}
    /\ up = Idle

\* ChunkedUploader(provider, backup_path).upload_file(), up to the loop:
\* __init__, load_upload_state, calculate_chunks
upload_file_begin ==
    /\ up.pc = "idle"
    /\ up' = [Idle EXCEPT !.pc = "loop",
                          !.file_path = bundle.path,
                          !.file_size = bundle.size,
                          !.uploaded_chunks =
                              load_upload_state(resume_file, bundle.path, bundle.size),
                          !.chunks = calculate_chunks(bundle),
                          !.idx = 1,
                          !.found = resume_file]
    /\ UNCHANGED <<bundle, resume_file, chunk_files, remote_chunks, exceptChunked>>

CurrentChunk == up.chunks[up.idx]

\* "if chunk_info['number'] in self.uploaded_chunks: continue"
skip_chunk ==
    /\ up.pc = "loop" /\ up.idx <= Len(up.chunks)
    /\ CurrentChunk.number \in Range(up.uploaded_chunks)
    /\ up' = [up EXCEPT !.idx = up.idx + 1]
    /\ UNCHANGED <<bundle, resume_file, chunk_files, remote_chunks, exceptChunked>>

\* entering upload_chunk(chunk_info) for a chunk that is not recorded
upload_chunk_begin ==
    /\ up.pc = "loop" /\ up.idx <= Len(up.chunks)
    /\ CurrentChunk.number \notin Range(up.uploaded_chunks)
    /\ up' = [up EXCEPT !.pc = "attempt", !.attempt = 0, !.waits = 0]
    /\ UNCHANGED <<bundle, resume_file, chunk_files, remote_chunks, exceptChunked>>

\* what follows one attempt of upload_chunk: return True on an id; the sleep
\* is in the except branch only, a None id goes straight to the next attempt;
\* "return False" after the last attempt
AfterAttempt(u, outcome) ==
    LET slept == IF outcome = "raise" /\ u.attempt < MAX_RETRIES - 1
                 THEN u.waits + 1 ELSE u.waits
    IN  IF outcome = "id" THEN [u EXCEPT !.pc = "record"]
        ELSE IF u.attempt + 1 < MAX_RETRIES
             THEN [u EXCEPT !.attempt = u.attempt + 1, !.waits = slept]
             ELSE [u EXCEPT !.attempt = u.attempt + 1, !.waits = slept,
                            !.pc = "failed", !.result = "false"]

\* one attempt of upload_chunk: write the temporary chunk file, call
\* provider.upload_file, unlink the chunk file, look at the returned id.
\* When the provider raises, the unlink is not reached.
upload_chunk_attempt ==
    /\ up.pc = "attempt"
    /\ \E outcome \in {"id", "none", "raise"} :
         LET n == CurrentChunk.number
         IN  /\ up' = AfterAttempt([up EXCEPT !.called = up.called \cup {n}],
                                   outcome)
             /\ chunk_files' = IF outcome = "raise" THEN chunk_files \cup {n}
                                                    ELSE chunk_files \ {n}
             /\ remote_chunks' = IF outcome = "id" THEN remote_chunks \cup {n}
                                                   ELSE remote_chunks
    /\ UNCHANGED <<bundle, resume_file, exceptChunked>>

\* "self.uploaded_chunks.append(number); self.save_upload_state()"
record_chunk ==
    /\ up.pc = "record"
    /\ LET u == [up EXCEPT !.uploaded_chunks = Append(up.uploaded_chunks,
                                                      CurrentChunk.number),
                           !.idx = up.idx + 1, !.pc = "loop"]
       IN  /\ up' = u
           /\ resume_file' = save_upload_state(u)
    /\ UNCHANGED <<bundle, chunk_files, remote_chunks, exceptChunked>>

\* after the loop: remove the resume file if it exists, return True
upload_file_finish ==
    /\ up.pc = "loop" /\ up.idx > Len(up.chunks)
    /\ resume_file' = NoStateFile
    /\ up' = [up EXCEPT !.pc = "done", !.result = "true"]
    /\ UNCHANGED <<bundle, chunk_files, remote_chunks, exceptChunked>>

\* the process ends: it returned, or it was interrupted (KeyboardInterrupt,
\* kill) at any point; files on disk and remote objects stay
process_exit ==
    /\ up.pc # "idle"
    /\ up' = Idle
    /\ UNCHANGED <<bundle, resume_file, chunk_files, remote_chunks, exceptChunked>>

\* between runs the bundle is rewritten with new content, of any size, or the
\* other file of the stem becomes the one to upload; none of the new content
\* is on the backend yet
new_bundle ==
    /\ up.pc = "idle"
    /\ \E b \in Bundles : bundle' = b
    /\ remote_chunks' = {}
    /\ UNCHANGED <<resume_file, chunk_files, up, exceptChunked>>

ChunkedNext ==
    \/ upload_file_begin
    \/ skip_chunk
    \/ upload_chunk_begin
    \/ upload_chunk_attempt
    \/ record_chunk
    \/ upload_file_finish
    \/ process_exit
    \/ new_bundle

\* ---- properties of the chunked upload

ChunkNumbers(u) == {u.chunks[i].number : i \in 1..Len(u.chunks)}

\* the run started from a resume file written for the same path and size
ResumedSameBundle ==
    /\ up.pc # "idle" /\ up.found.exists
    /\ up.found.file_path = up.file_path /\ up.found.file_size = up.file_size

\* C3 (state part): a run resumed on the same bundle calls the provider's
\* upload only for chunk numbers that are not in the persisted set, and when
\* it returns True it has called it for every such chunk.
C3_OnlyMissingChunks ==
    ResumedSameBundle =>
        /\ up.called \cap Range(up.found.uploaded_chunks) = {}
        /\ up.pc = "done" =>
             up.called = ChunkNumbers(up) \ Range(up.found.uploaded_chunks)

\* C3 (step part): the step that removes the .upload_state file is taken only
\* when every chunk of the file is recorded in uploaded_chunks.
C3_StateFileRemoval ==
    (resume_file.exists /\ ~resume_file'.exists) =>
        ChunkNumbers(up) \subseteq Range(up.uploaded_chunks)

\* C3: re-invoked on the same bundle after an interrupted run, upload_file
\* uploads only the chunks that are not in the persisted set, and removes the
\* .upload_state file only after all chunks are recorded as uploaded.
C3_ResumeSkipsRecorded == [](C3_OnlyMissingChunks) /\ [][C3_StateFileRemoval]_vars

\* a resumed run of a 3-chunk bundle that found 1 or 2 chunks recorded,
\* uploaded the others and removed the state file
C3_Witness ==
    /\ ResumedSameBundle /\ up.pc = "done"
    /\ Len(up.chunks) = 3
    /\ Len(up.found.uploaded_chunks) \in {1, 2}
    /\ up.called # {} /\ up.called # ChunkNumbers(up)
    /\ ~resume_file.exists

\* C21: a chunk whose upload fails (the provider raises or returns no id) is
\* retried with the fixed delay between attempts, at most MAX_RETRIES attempts
\* in all; the run is declared failed only after the last attempt failed, the
\* state file is then kept, and after full success no state file exists.
C21_ChunkRetriedWithDelay ==
    /\ [](up.pc \in {"attempt", "record", "failed"} =>
            /\ up.attempt <= MAX_RETRIES
            /\ up.pc = "attempt" => up.waits = up.attempt
            /\ up.pc = "failed" => up.attempt = MAX_RETRIES /\ up.waits = MAX_RETRIES - 1)
    /\ [](up.pc = "done" => ~resume_file.exists)
    /\ [][(up.pc # "failed" /\ up'.pc = "failed") => resume_file' = resume_file]_vars

\* the run started from a resume file that records another size or path
ResumedOtherBundle ==
    /\ up.pc # "idle" /\ up.found.exists
    /\ (up.found.file_path # up.file_path \/ up.found.file_size # up.file_size)

\* C22: when the persisted state records a size (or path) different from the
\* current bundle's, the uploader ignores the recorded chunk set: every chunk
\* it holds as uploaded was uploaded by this run, and when it returns True it
\* has called the provider's upload for every chunk of the file.
C22_MismatchStartsFromScratch ==
    ResumedOtherBundle =>
        /\ Range(up.uploaded_chunks) \subseteq up.called
        /\ up.pc = "loop" => \A i \in 1..(up.idx - 1) : up.chunks[i].number \in up.called
        /\ up.pc = "done" => up.called = ChunkNumbers(up)

\* a run on a 2-chunk bundle that found a record of the same path, of another
\* size, with chunks 0 and 1 recorded, and uploaded both chunks again
C22_Witness ==
    /\ ResumedOtherBundle /\ up.pc = "done"
    /\ up.found.file_path = up.file_path
    /\ Range(up.found.uploaded_chunks) = {0, 1}
    /\ ChunkNumbers(up) = {0, 1}
    /\ up.called = {0, 1}

\* C30: after upload_chunk returns, with True or after all attempts failed,
\* no temporary .chunk_<n> file of that chunk is left next to the bundle.
C30_NoChunkFileLeft ==
    up.pc \in {"record", "failed"} => CurrentChunk.number \notin chunk_files

(***************************************************************************)
(* Storage providers: storage_providers/{base_provider,local,s3,dropbox,   *)
(* google_drive}.py and the factory storage_providers/__init__.py          *)
(***************************************************************************)

MaxStored == 2       \* files the backend holds at most
MaxSize == 2         \* byte sizes of uploaded files
MaxBackups == 1      \* largest max_backups passed to cleanup_old_backups

\* PROVIDER_MODULES
PROVIDER_MODULES == {"google_drive", "dropbox", "s3", "local"}
ProviderNames == PROVIDER_MODULES \cup {"ftp"}

\* A file name is stem + ext; the stem is a base followed by "_<n>" for each
\* n of suffix, so that "b_1.zip" is base "b", suffix <<1>>, ext ".zip".
FileName(base, suffix, ext) == [base |-> base, suffix |-> suffix, ext |-> ext]

\* f"{stem}_{counter}{suffix}"
WithCounter(name, counter) == [name EXCEPT !.suffix = Append(name.suffix, counter)]

\* folder paths are sequences of segments; <<>> is the root ("")
Root == <<>>
BackupPrefix == "Backup"
Prefixes(d) == {SubSeq(d, 1, k) : k \in 1..Len(d)}

\* get_backup_destination: f"{self.backup_prefix}/{backup_type}"
get_backup_destination(backup_type) == <<BackupPrefix, backup_type>>

Destinations == {<<"daily">>, get_backup_destination("daily")}
LocalFiles == [name : {FileName("b", <<>>, ".zip")}, size : 1..MaxSize]

EmptyStore == [folders |-> {}, files |-> {}]

\* the modification time a write gets: later than that of every file kept
NextTime(files) == Cardinality(files) + 1

\* Only the order of modification times is observable (the sort of
\* cleanup_old_backups): times are kept as ranks 1..n, oldest first.
Ranked(st) ==
    [st EXCEPT !.files =
        {[x EXCEPT !.mtime = Cardinality({y \in st.files : y.mtime <= x.mtime})] :
            x \in st.files}]

\* a file id the Drive backend has not given to a file it holds
FreshId(files) ==
    CHOOSE n \in 1..(Cardinality(files) + 1) :
        /\ n \notin {x.id : x \in files}
        /\ \A m \in 1..(n - 1) : m \in {x.id : x \in files}

InFolder(st, d) == {x \in st.files : x.folder = d}
NamesIn(st, d) == {x.name : x \in InFolder(st, d)}

\* the record list_files builds for a file of the backend
FileRecord(x) == [id |-> x.id, name |-> x.name, size |-> x.size,
                  modified_time |-> x.mtime]

\* the record the folder-listing backends return for a subfolder of d
FolderRecord(sub) == [id |-> sub, name |-> FileName(sub[Len(sub)], <<>>, ""),
                      size |-> 0, modified_time |-> 0]

SubFolders(st, d) == {sub \in st.folders : Len(sub) = Len(d) + 1 /\ SubSeq(sub, 1, Len(d)) = d}

Returned(value) == [raised |-> FALSE, value |-> value]
Raised == [raised |-> TRUE, value |-> "exception"]

\* ---- LocalStorageProvider

\* a choice of name that keeps the original name although it is taken
FreeName_original(original, counter, taken) == original

\* the while loop of upload_file: the first of name, name_1, name_2, ... that
\* does not exist in dest_dir
RECURSIVE FreeName(_, _, _)
FreeName(original, counter, taken) ==
    LET dest_path == IF counter = 0 THEN original ELSE WithCounter(original, counter)
    IN  IF dest_path \in taken THEN FreeName(original, counter + 1, taken)
        ELSE dest_path

\* LocalStorageProvider.upload_file: mkdir -p, unique name, copy2
local_upload_file(st, f, d) ==
    LET dest_path == FreeName(f.name, 0, NamesIn(st, d))
        x == [folder |-> d, name |-> dest_path, size |-> f.size,
              mtime |-> NextTime(st.files), id |-> [folder |-> d, name |-> dest_path]]
    IN  [out |-> Returned(x.id),
         store |-> [st EXCEPT !.folders = st.folders \cup Prefixes(d),
                              !.files = st.files \cup {x}]]

\* list_files without the "if not search_path.exists()" test: iterdir raises
local_list_files_unchecked(st, d) ==
    IF d # Root /\ d \notin st.folders THEN Raised
    ELSE Returned({FileRecord(x) : x \in InFolder(st, d)})

\* LocalStorageProvider.list_files
local_list_files(st, d) ==
    IF d # Root /\ d \notin st.folders THEN Returned({})
    ELSE Returned({FileRecord(x) : x \in InFolder(st, d)})

\* ---- S3Provider: objects are keyed by "{destination}/{name}"

s3_upload_file(st, f, d) ==
    LET id == [folder |-> d, name |-> f.name]
        kept == {y \in st.files : y.id # id}
        x == [folder |-> d, name |-> f.name, size |-> f.size,
              mtime |-> NextTime(kept), id |-> id]
    IN  [out |-> Returned(x.id),
         store |-> [st EXCEPT !.files = kept \cup {x}]]

\* list_objects_v2(Prefix=folder/, Delimiter='/'): the keys directly under it
s3_list_files(st, d) == Returned({FileRecord(x) : x \in InFolder(st, d)})

\* ---- DropboxProvider

\* _ensure_folder_exists: create every missing segment of the path
dropbox_ensure_folder_exists(st, d) == [st EXCEPT !.folders = st.folders \cup Prefixes(d)]

\* DropboxProvider.upload_file: the name dropbox is bound only inside
\* _initialize_provider, so evaluating dropbox.files.WriteMode raises NameError
\* after the destination folders were ensured
dropbox_upload_file(st, f, d) ==
    [out |-> Raised, store |-> dropbox_ensure_folder_exists(st, d)]

\* DropboxProvider.list_files: files_list_folder, "not_found" gives []
dropbox_list_files(st, d) ==
    IF d # Root /\ d \notin st.folders THEN Returned({})
    ELSE Returned({FileRecord(x) : x \in InFolder(st, d)}
                  \cup {FolderRecord(sub) : sub \in SubFolders(st, d)})

\* ---- GoogleDriveProvider

\* _get_folder_id(folder_name) with parent_id None: a folder directly under
\* the root whose name is the whole string folder_name
gdrive_get_folder_id(st, d) ==
    IF Len(d) = 1 /\ d \in st.folders THEN [found |-> TRUE, folder |-> d]
    ELSE [found |-> FALSE]

\* create_folder: walk the segments, reusing folders that exist
gdrive_create_folder(st, d) == [st EXCEPT !.folders = st.folders \cup Prefixes(d)]

\* upload_file: _get_or_create_folder, then files().create with the leaf
\* folder as parent; Drive keeps files of equal names side by side
gdrive_upload_file(st, f, d) ==
    LET st1 == IF gdrive_get_folder_id(st, d).found THEN st
               ELSE gdrive_create_folder(st, d)
        x == [folder |-> d, name |-> f.name, size |-> f.size,
              mtime |-> NextTime(st.files), id |-> FreshId(st.files)]
    IN  [out |-> Returned(x.id),
         store |-> [st1 EXCEPT !.files = st1.files \cup {x}]]

\* list_files: root, or the folder _get_folder_id finds; none gives []
gdrive_list_files(st, d) ==
    LET folder_id == IF d = Root THEN [found |-> TRUE, folder |-> Root]
                     ELSE gdrive_get_folder_id(st, d)
    IN  IF ~folder_id.found THEN Returned({})
        ELSE Returned({FileRecord(x) : x \in InFolder(st, d)}
                      \cup {FolderRecord(sub) : sub \in SubFolders(st, d)})

\* ---- create_folder

\* LocalStorageProvider.create_folder: mkdir(parents=True, exist_ok=True)
local_create_folder(st, d) ==
    [out |-> Returned(d), store |-> [st EXCEPT !.folders = st.folders \cup Prefixes(d)]]

\* S3Provider.create_folder: put an empty object at "{folder_path}/"
s3_create_folder(st, d) ==
    [out |-> Returned(d), store |-> [st EXCEPT !.folders = st.folders \cup {d}]]

\* DropboxProvider.create_folder: files_create_folder_v2 creates the missing
\* parents and refuses a path that exists (conflict), which is re-raised
dropbox_create_folder(st, d) ==
    IF d \in st.folders THEN [out |-> Raised, store |-> st]
    ELSE [out |-> Returned(d),
          store |-> [st EXCEPT !.folders = st.folders \cup Prefixes(d)]]

\* create_folder(folder_path) with a reachable backend
CreateFolder(kind, st, d) ==
    CASE kind = "local" -> local_create_folder(st, d)
      [] kind = "s3" -> s3_create_folder(st, d)
      [] kind = "dropbox" -> dropbox_create_folder(st, d)
      [] kind = "google_drive" ->
            [out |-> Returned(d), store |-> gdrive_create_folder(st, d)]

\* ---- the contract, dispatched on the variant

\* upload_file(file_path, destination) with a reachable backend
UploadFile(kind, st, f, d) ==
    CASE kind = "local" -> local_upload_file(st, f, d)
      [] kind = "s3" -> s3_upload_file(st, f, d)
      [] kind = "dropbox" -> dropbox_upload_file(st, f, d)
      [] kind = "google_drive" -> gdrive_upload_file(st, f, d)

\* list_files(folder_path) with a reachable backend
ListFiles(kind, st, d) ==
    CASE kind = "local" -> local_list_files(st, d)
      [] kind = "s3" -> s3_list_files(st, d)
      [] kind = "dropbox" -> dropbox_list_files(st, d)
      [] kind = "google_drive" -> gdrive_list_files(st, d)

\* whether a call of the variant goes over the network
IsRemote(kind) == kind # "local"

\* the folder exists on the backend (the object store has no folders: a
\* folder is there when some key lies under it)
FolderExists(kind, st, d) ==
    \/ d = Root
    \/ d \in st.folders
    \/ kind = "s3" /\ \E x \in st.files : d \in Prefixes(x.folder)

\* ---- delete_file and the base class's cleanup_old_backups

Exists(st, id) == \E x \in st.files : x.id = id
Remove(st, id) == [st EXCEPT !.files = {x \in st.files : x.id # id}]

\* delete_file(file_id); rejected: the backend refuses the request
\* (permission, transport); a missing file: local returns False, the object
\* store deletes nothing and succeeds, the id-based backends raise on lookup
DeleteFile(kind, st, id, rejected) ==
    IF kind = "local" /\ ~Exists(st, id) THEN [out |-> Returned(FALSE), store |-> st]
    ELSE IF rejected THEN [out |-> Raised, store |-> st]
    ELSE IF kind \in {"dropbox", "google_drive"} /\ ~Exists(st, id)
         THEN [out |-> Raised, store |-> st]
    ELSE [out |-> Returned(TRUE), store |-> Remove(st, id)]

\* the loop "for old in files_sorted[max_backups:]" of cleanup_old_backups:
\* a False from delete_file is a warning; an exception leaves the loop and
\* reaches the except clause of cleanup_old_backups
RECURSIVE DeleteOld(_, _, _, _, _, _)
DeleteOld(kind, st, olds, faults, attempted, failed) ==
    IF olds = <<>>
    THEN [store |-> st, attempted |-> attempted, failed |-> failed, result |-> TRUE]
    ELSE LET old == Head(olds)
             st0 == IF old.id \in faults.vanished THEN Remove(st, old.id) ELSE st
             del == DeleteFile(kind, st0, old.id, old.id \in faults.rejected)
         IN  IF del.out.raised
             THEN [store |-> del.store, attempted |-> attempted \cup {old.id},
                   failed |-> failed \cup {old.id}, result |-> FALSE]
             ELSE DeleteOld(kind, del.store, Tail(olds), faults,
                            attempted \cup {old.id},
                            IF del.out.value THEN failed ELSE failed \cup {old.id})

\* sorted(files, key=modified_time, reverse=True)
RecordsNewestFirst(files) ==
    {s \in Orderings(files) :
        \A i, j \in 1..Len(s) : i < j => s[i].modified_time >= s[j].modified_time}

\* StorageProvider.__init__ for a variant the factory knows: _validate_config,
\* then _initialize_provider; either may raise, and then no object exists.
\* This one goes on to _initialize_provider after a failed validation.
StorageProvider_init_unchecked(kind, config_valid, reachable) ==
    LET calls == {"_validate_config", "_initialize_provider"}
                    \cup (IF kind \in {"s3", "dropbox"} THEN {"network"} ELSE {})
    IN  IF ~reachable
        THEN [kind |-> kind, pc |-> "failed", failed_at |-> "initialize",
              config_valid |-> config_valid, authenticated |-> FALSE, calls |-> calls]
        ELSE [kind |-> kind, pc |-> "ready", failed_at |-> "none",
              config_valid |-> config_valid, authenticated |-> TRUE, calls |-> calls]

StorageProvider_init(kind, config_valid, reachable) ==
    IF ~config_valid
    THEN [kind |-> kind, pc |-> "failed", failed_at |-> "validate",
          config_valid |-> config_valid, authenticated |-> FALSE,
          calls |-> {"_validate_config"}]
    ELSE LET calls == {"_validate_config", "_initialize_provider"}
                        \cup (IF kind \in {"s3", "dropbox"} THEN {"network"} ELSE {})
         IN  IF ~reachable
             THEN [kind |-> kind, pc |-> "failed", failed_at |-> "initialize",
                   config_valid |-> config_valid, authenticated |-> FALSE,
                   calls |-> calls]
             ELSE [kind |-> kind, pc |-> "ready", failed_at |-> "none",
                   config_valid |-> config_valid, authenticated |-> TRUE,
                   calls |-> calls]

NoProvider(kind) == [kind |-> kind, pc |-> "start", failed_at |-> "none",
                     config_valid |-> TRUE, authenticated |-> FALSE, calls |-> {}]

NoOp == [op |-> "none"]

ProviderState ==
    /\ provider \in {NoProvider(kind) : kind \in ProviderNames}
    /\ store = EmptyStore
    /\ last = NoOp

\* get_storage_provider(provider_name, config)
get_storage_provider ==
    /\ provider.pc = "start"
    /\ \E config_valid \in BOOLEAN, reachable \in BOOLEAN :
         provider' =
            IF provider.kind \notin PROVIDER_MODULES
            THEN [provider EXCEPT !.pc = "failed", !.failed_at = "factory"]
            ELSE StorageProvider_init(provider.kind, config_valid, reachable)
    /\ last' = [op |-> "get_storage_provider"]
    /\ UNCHANGED <<store, exceptProvider>>

\* an authenticate whose session is used up by the first call
authenticate_once(p, ok) ==
    IF p.authenticated /\ "authenticate" \in p.calls
    THEN [out |-> Raised, authenticated |-> FALSE]
    ELSE [out |-> IF ok THEN Returned(TRUE) ELSE Raised, authenticated |-> ok]

\* what authenticate() returns and sets _authenticated to: True after a
\* successful round-trip (none for the local variant), else False and raise
authenticate_result(p, ok) ==
    [out |-> IF ok THEN Returned(TRUE) ELSE Raised, authenticated |-> ok]

\* authenticate(): the local variant always succeeds; the others make one
\* round-trip and raise when it fails
authenticate ==
    /\ provider.pc = "ready"
    /\ \E reachable \in BOOLEAN :
         LET ok == ~IsRemote(provider.kind) \/ reachable
             auth == authenticate_result(provider, ok)
         IN  /\ provider' = [provider EXCEPT
                    !.authenticated = auth.authenticated,
                    !.calls = provider.calls \cup {"authenticate"}
                                \cup (IF IsRemote(provider.kind) THEN {"network"} ELSE {})]
             /\ last' = [op |-> "authenticate", reachable |-> ok,
                         again |-> (last.op = "authenticate" /\ ~last.out.raised),
                         out |-> auth.out]
    /\ UNCHANGED <<store, exceptProvider>>

\* test_connection(): list_files("") answered gives True, raised gives False
test_connection ==
    /\ provider.pc = "ready"
    /\ \E reachable \in BOOLEAN :
         LET ok == ~IsRemote(provider.kind) \/ reachable
             listed == IF ok THEN ListFiles(provider.kind, store, Root) ELSE Raised
         IN  /\ last' = [op |-> "test_connection", reachable |-> ok,
                         out |-> Returned(~listed.raised)]
             /\ provider' = [provider EXCEPT
                    !.calls = provider.calls
                                \cup (IF IsRemote(provider.kind) THEN {"network"} ELSE {})]
    /\ UNCHANGED <<store, exceptProvider>>

\* upload_file(file_path, destination); an unauthenticated provider
\* authenticates first; an unreachable backend makes the call raise
upload_file ==
    /\ provider.pc = "ready"
    /\ Cardinality(store.files) < MaxStored
    /\ \E f \in LocalFiles, d \in Destinations, reachable \in BOOLEAN :
         LET ok == ~IsRemote(provider.kind) \/ reachable
             up_ == UploadFile(provider.kind, store, f, d)
         IN  /\ provider' = [provider EXCEPT
                    !.authenticated = IF provider.authenticated THEN TRUE ELSE ok,
                    !.calls = provider.calls
                                \cup (IF provider.authenticated THEN {} ELSE {"authenticate"})
                                \cup (IF IsRemote(provider.kind) THEN {"network"} ELSE {})]
             /\ store' = IF ok THEN Ranked(up_.store) ELSE store
             /\ last' = [op |-> "upload_file", file |-> f, folder |-> d,
                         out |-> IF ok THEN up_.out ELSE Raised]
    /\ UNCHANGED exceptProvider

\* list_files(folder_path); the Drive variant's _get_folder_id turns a failed
\* lookup into "no such folder"
list_files ==
    /\ provider.pc = "ready"
    /\ \E d \in Destinations \cup {Root}, reachable \in BOOLEAN :
         LET ok == ~IsRemote(provider.kind) \/ reachable
         IN  /\ last' = [op |-> "list_files", folder |-> d, reachable |-> ok,
                         existed |-> FolderExists(provider.kind, store, d),
                         out |-> IF ok THEN ListFiles(provider.kind, store, d)
                                 ELSE IF provider.kind = "google_drive" /\ d # Root
                                      THEN Returned({})
                                 ELSE Raised]
             /\ provider' = [provider EXCEPT
                    !.calls = provider.calls
                                \cup (IF IsRemote(provider.kind) THEN {"network"} ELSE {})]
    /\ UNCHANGED <<store, exceptProvider>>

\* create_folder(folder_path)
create_folder ==
    /\ provider.pc = "ready"
    /\ \E d \in Destinations, reachable \in BOOLEAN :
         LET ok == ~IsRemote(provider.kind) \/ reachable
             made == CreateFolder(provider.kind, store, d)
         IN  /\ store' = IF ok THEN made.store ELSE store
             /\ last' = [op |-> "create_folder", folder |-> d, reachable |-> ok,
                         existed |-> FolderExists(provider.kind, store, d),
                         unchanged |-> (ok => made.store = store),
                         out |-> IF ok THEN made.out ELSE Raised]
             /\ provider' = [provider EXCEPT
                    !.calls = provider.calls
                                \cup (IF IsRemote(provider.kind) THEN {"network"} ELSE {})]
    /\ UNCHANGED exceptProvider

FaultChoices(ids) ==
    {[rejected |-> {}, vanished |-> {}]}
      \cup {[rejected |-> {id}, vanished |-> {}] : id \in ids}
      \cup {[rejected |-> {}, vanished |-> {id}] : id \in ids}

\* StorageProvider.cleanup_old_backups(max_backups, "daily")
StorageProvider_cleanup_old_backups ==
    /\ provider.pc = "ready"
    /\ \E max_backups \in 0..MaxBackups :
         LET folder_path == get_backup_destination("daily")
             files == ListFiles(provider.kind, store, folder_path).value
         IN  IF Cardinality(files) <= max_backups
             THEN /\ last' = [op |-> "cleanup", max_backups |-> max_backups,
                              excess |-> {}, attempted |-> {}, failed |-> {},
                              result |-> TRUE]
                  /\ store' = store
             ELSE \E files_sorted \in RecordsNewestFirst(files),
                     faults \in FaultChoices({x.id : x \in files}) :
                    LET olds == Drop(files_sorted, max_backups)
                        run == DeleteOld(provider.kind, store, olds, faults, {}, {})
                    IN  /\ store' = Ranked(run.store)
                        /\ last' = [op |-> "cleanup", max_backups |-> max_backups,
                                    excess |-> {old.id : old \in Range(olds)},
                                    attempted |-> run.attempted,
                                    failed |-> run.failed,
                                    result |-> run.result]
    /\ provider' = [provider EXCEPT
           !.calls = provider.calls
                       \cup (IF IsRemote(provider.kind) THEN {"network"} ELSE {})]
    /\ UNCHANGED exceptProvider

ProviderNext ==
    \/ get_storage_provider
    \/ authenticate
    \/ test_connection
    \/ upload_file
    \/ list_files
    \/ create_folder
    \/ StorageProvider_cleanup_old_backups


\* C12: at every point of a chunked upload, across interruptions and
\* re-runs, every chunk number the run holds as uploaded, and every number of
\* a persisted state written for the current path and size, is the number of
\* a chunk of the current file that the backend has accepted.
C12_RecordedChunksAccepted ==
    up.pc # "idle" =>
        /\ Range(up.uploaded_chunks) \subseteq (remote_chunks \cap ChunkNumbers(up))
        /\ (resume_file.exists /\ resume_file.file_path = bundle.path
                /\ resume_file.file_size = bundle.size)
              => Range(resume_file.uploaded_chunks) \subseteq remote_chunks

(***************************************************************************)
(* Properties of the storage providers                                     *)
(***************************************************************************)

\* C4: for every variant the factory knows, when _validate_config fails
\* the construction raises before _initialize_provider runs, no provider
\* object comes back, and so neither authenticate nor a network call is ever
\* made for it: the only call recorded is _validate_config, and a failed
\* construction is never followed by any call.
C4_ValidateFailureStopsConstruction ==
    /\ [](provider.pc # "start" /\ provider.kind \in PROVIDER_MODULES
            /\ ~provider.config_valid
          => provider.pc = "failed" /\ provider.calls = {"_validate_config"})
    /\ [][provider.pc = "failed" => provider' = provider]_vars

C4_Witness ==
    /\ provider.pc = "failed" /\ provider.failed_at = "validate"
    /\ provider.kind = "s3" /\ last.op = "get_storage_provider"

\* C5: for every variant, list_files on a folder that does not exist on a
\* backend that answers returns the empty list and does not raise.
C5_ListMissingFolderIsEmpty ==
    last.op = "list_files" /\ last.reachable /\ ~last.existed
        => ~last.out.raised /\ last.out.value = {}

C5_Witness ==
    /\ last.op = "list_files" /\ last.reachable /\ ~last.existed
    /\ last.folder = get_backup_destination("daily")
    /\ store.files # {}
    /\ provider.kind = "local"

\* C6: for every variant and every prior content of the destination, after
\* upload_file(f, d) succeeded, list_files(d) holds a record with f's name
\* and f's size.
C6_UploadThenList ==
    last.op = "upload_file" /\ ~last.out.raised
        => LET listed == ListFiles(provider.kind, store, last.folder)
           IN  /\ ~listed.raised
               /\ \E r \in listed.value :
                    r.name = last.file.name /\ r.size = last.file.size

\* C13: for every variant, create_folder(p) on a folder path that exists
\* on a backend that answers returns the folder's id without raising and
\* leaves the backend's folders and files as they were.
C13_CreateFolderIdempotent ==
    last.op = "create_folder" /\ last.reachable /\ last.existed
        => ~last.out.raised /\ last.unchanged

\* the objects a folder of the backend holds, as (name, size) pairs
ObjectsIn(st, d) == {<<x.name, x.size>> : x \in InFolder(st, d)}

\* C23: for every variant, uploading again a file the destination folder
\* already holds (same name, same bytes), as upload_chunk does for a chunk the
\* remote accepted before the state was saved, leaves the folder with the
\* same set of objects, one per file name.
C23_ReuploadIdempotent ==
    [][(/\ last'.op = "upload_file" /\ ~last'.out.raised
        /\ <<last'.file.name, last'.file.size>> \in ObjectsIn(store, last'.folder))
       => /\ ObjectsIn(store', last'.folder) = ObjectsIn(store, last'.folder)
          /\ Cardinality(InFolder(store', last'.folder))
               = Cardinality(InFolder(store, last'.folder))]_vars

\* C14: LocalStorageProvider.upload_file leaves every file of the backend
\* as it is and adds one file to the destination: under the uploaded name
\* if it is free, else under {stem}_{n}{ext} for the smallest n >= 1 that is
\* free; the id it returns is the id list_files reports for that file.
C14_LocalUploadNeverOverwrites ==
    [][(provider.kind = "local" /\ last'.op = "upload_file")
       => LET f == last'.file
              d == last'.folder
              taken == NamesIn(store, d)
              n == CHOOSE k \in 1..(Cardinality(taken) + 1) :
                        /\ WithCounter(f.name, k) \notin taken
                        /\ \A m \in 1..(k - 1) : WithCounter(f.name, m) \in taken
              stored == IF f.name \in taken THEN WithCounter(f.name, n) ELSE f.name
          IN  /\ store.files \subseteq store'.files
              /\ \E x \in store'.files :
                    /\ store'.files \ store.files = {x}
                    /\ x.folder = d /\ x.name = stored /\ x.size = f.size
                    /\ ~last'.out.raised /\ last'.out.value = x.id
                    /\ \E r \in local_list_files(store', d).value :
                          r.id = last'.out.value /\ r.name = stored /\ r.size = f.size
      ]_vars

C14_Witness ==
    /\ provider.kind = "local" /\ last.op = "upload_file" /\ ~last.out.raised
    /\ last.out.value.name = WithCounter(last.file.name, 1)
    /\ last.file.name \in NamesIn(store, last.folder)

\* C15: authenticate is idempotent: with a backend session that is valid,
\* every authenticate call, a repeated one included, returns True, leaves
\* the provider authenticated and usable and the backend as it was; for the
\* local variant authenticate and test_connection always return True.
C15_AuthenticateIdempotent ==
    /\ [][(last'.op = "authenticate" /\ last'.reachable)
          => /\ ~last'.out.raised /\ last'.out.value = TRUE
             /\ provider'.authenticated
             /\ provider'.pc = provider.pc
             /\ store' = store]_vars
    /\ [](provider.kind = "local" /\ last.op \in {"authenticate", "test_connection"}
            => ~last.out.raised /\ last.out.value = TRUE /\ provider.authenticated)

C15_Witness ==
    /\ provider.kind = "s3" /\ last.op = "authenticate"
    /\ last.reachable /\ last.again
    /\ provider.authenticated /\ store.files # {}

\* C9: in StorageProvider.cleanup_old_backups, when the deletion of an entry
\* beyond max_backups fails (delete_file returns False or raises), deletion
\* is still attempted for every other entry beyond max_backups.
C9_DeletionFailureSkipped ==
    last.op = "cleanup" /\ last.failed # {} => last.attempted = last.excess

(***************************************************************************)
(* File router (router.py)                                                 *)
(***************************************************************************)

MaxContent == 2      \* distinct non-empty file contents; content 0 is empty
MaxDropped == 2      \* files in the DropZone when a run starts
MaxKept == 2         \* files the destination folder holds when a run starts

\* ROUTING_RULES, the extensions the model uses
ROUTING_RULES == [ext \in {".pdf", ".txt"} |-> "admin"]

\* get_routing_destination: the folder key, or no folder
get_routing_destination(ext) ==
    IF ext \in DOMAIN ROUTING_RULES THEN <<ROUTING_RULES[ext]>> ELSE <<>>

\* dest_folder of route_single_file: unknown types go to "archive"
DestFolder(ext) ==
    IF get_routing_destination(ext) # <<>> THEN get_routing_destination(ext)[1]
    ELSE "archive"

RouteFolders == {"admin", "archive"}
DropNames == {FileName("report", <<>>, ".pdf"), FileName("data", <<>>, ".xyz")}
KeptNames == {FileName("report", <<>>, ".pdf"), FileName("report", <<1>>, ".pdf"),
              FileName("report", <<>>, ".txt")}

\* DropZone entries route_files leaves out of its list: a directory, a hidden
\* file, .DS_Store and Thumbs.db
DirectoryNames == {FileName("inbox", <<>>, "")}
HiddenNames == {FileName(".draft", <<>>, ".pdf"), FileName(".DS_Store", <<>>, "")}
SkippedNames == DirectoryNames \cup HiddenNames \cup {FileName("Thumbs", <<>>, ".db")}
SkippedEntries == [name : SkippedNames, content : {1}]

\* a filter that lists every entry of the DropZone
listed_for_routing_all(name) == TRUE

\* the filter of route_files: is_file(), no leading ".", not .DS_Store, not
\* Thumbs.db
listed_for_routing(name) ==
    /\ name \notin DirectoryNames
    /\ name \notin HiddenNames
    /\ name # FileName(".DS_Store", <<>>, "")
    /\ name # FileName("Thumbs", <<>>, ".db")

UniqueNames(S) == \A x, y \in S : x.name = y.name => x = y
FolderContents(names, contents, most) ==
    {S \in SUBSET [name : names, content : contents] :
        UniqueNames(S) /\ Cardinality(S) <= most}

\* calculate_file_hash: the digest of the content, "" when reading fails
calculate_file_hash(content, readable) ==
    IF readable THEN <<"md5", content>> ELSE <<>>

\* find_duplicate_by_content that never reports a match
find_duplicate_none(name, source_hash, folder_files) == {}

\* find_duplicate_by_content: the files of dest_folder with the source's
\* extension and digest (the code returns the first one glob yields)
find_duplicate_by_content(name, source_hash, folder_files) ==
    IF source_hash = <<>> THEN {}
    ELSE {existing \in folder_files :
            /\ existing.name.ext = name.ext
            /\ calculate_file_hash(existing.content, TRUE) = source_hash}

\* a "unique" name that is the name itself
generate_same_filename(name, taken, counter) == name

\* generate_unique_filename: f"{stem}_{counter}{extension}" for the first
\* counter >= 1 whose name is free
RECURSIVE generate_unique_filename(_, _, _)
generate_unique_filename(name, taken, counter) ==
    IF WithCounter(name, counter) \notin taken THEN WithCounter(name, counter)
    ELSE generate_unique_filename(name, taken, counter + 1)

\* a validation that accepts every file
validate_everything(file) == TRUE

\* validate_file_for_routing: an empty file is not routed
validate_file_for_routing(file) == file.content # 0

\* shutil.move onto dest_path: a file of that name is replaced
Moved(folder_files, dest_path, content) ==
    {x \in folder_files : x.name # dest_path}
        \cup {[name |-> dest_path, content |-> content]}

\* a verification that accepts whatever the move left
move_verified_always(dest_exists, source_exists) == TRUE

\* "if dest_path.exists() and not file_path.exists()" after shutil.move
move_verified(dest_exists, source_exists) == dest_exists /\ ~source_exists

RouterFaults == {"none", "missing", "unreadable", "hash", "unlink", "move", "move_copied",
                 "source_back"}

\* route_single_file(file_path) on drop-zone dz and destinations d; fault is
\* the I/O failure met: "hash" the source cannot be read for hashing,
\* "unlink" the removal of a duplicate raises, "move" shutil.move raises
\* before anything changed, "move_copied" it raises after the copy was made,
\* "missing" the file is gone since route_files listed it, "unreadable"
\* os.access denies reading it, "source_back" shutil.move returns and the
\* source path exists again when it is checked (its producer wrote it again)
RouteSingle(file, dz, d, fault) ==
    IF fault = "missing"
    THEN [dropzone |-> dz \ {file}, dest |-> d, outcome |-> "invalid", success |-> FALSE]
    ELSE IF ~validate_file_for_routing(file) \/ fault = "unreadable"
    THEN [dropzone |-> dz, dest |-> d, outcome |-> "invalid", success |-> FALSE]
    ELSE
    LET dest_folder == DestFolder(file.name.ext)
        source_hash == calculate_file_hash(file.content, fault # "hash")
        duplicate_file == find_duplicate_by_content(file.name, source_hash, d[dest_folder])
        taken == {x.name : x \in d[dest_folder]}
        dest_path == IF file.name \in taken
                     THEN generate_unique_filename(file.name, taken, 1)
                     ELSE file.name
        placed == [d EXCEPT ![dest_folder] = Moved(d[dest_folder], dest_path, file.content)]
    IN  IF duplicate_file # {}
        THEN IF fault = "unlink"
             THEN [dropzone |-> dz, dest |-> d, outcome |-> "duplicate_error",
                   success |-> FALSE]
             ELSE [dropzone |-> dz \ {file}, dest |-> d, outcome |-> "duplicate",
                   success |-> TRUE]
        ELSE IF fault = "move"
             THEN [dropzone |-> dz, dest |-> d, outcome |-> "error", success |-> FALSE]
        ELSE IF fault = "move_copied"
             THEN [dropzone |-> dz, dest |-> placed, outcome |-> "error",
                   success |-> FALSE]
        ELSE LET left == IF fault = "source_back" THEN dz ELSE dz \ {file}
                 verified == move_verified(
                                 dest_path \in {x.name : x \in placed[dest_folder]},
                                 file.name \in {x.name : x \in left})
             IN  IF verified
                 THEN [dropzone |-> left, dest |-> placed, outcome |-> "routed",
                       success |-> TRUE]
                 ELSE [dropzone |-> left, dest |-> placed, outcome |-> "error",
                       success |-> FALSE]

\* FileRouter()
FileRouter == [pc |-> "idle", files |-> <<>>, routed_count |-> 0, errors |-> <<>>,
               warnings |-> <<>>, duplicates_handled |-> 0, failed_files |-> <<>>,
               faults |-> 0, fault |-> "none", outcome |-> "none", result |-> "none"]

RouterState ==
    /\ \E dropped \in FolderContents(DropNames, 0..MaxContent, MaxDropped),
          skipped \in {{}, SkippedEntries} :
         dropzone = dropped \cup skipped
    /\ \E kept \in FolderContents(KeptNames, 1..MaxContent, MaxKept) :
         dest = [folder \in RouteFolders |-> IF folder = "admin" THEN kept ELSE {}]
    /\ router = FileRouter

\* route_files up to the loop: the files of the DropZone in the order glob
\* yields them; an empty DropZone ends the run with True
route_files_begin ==
    /\ router.pc = "idle"
    /\ \E files \in Orderings({f.name : f \in {x \in dropzone : listed_for_routing(x.name)}}) :
         router' = IF files = <<>>
                   THEN [router EXCEPT !.pc = "done", !.result = "true"]
                   ELSE [router EXCEPT !.pc = "routing", !.files = files]
    /\ UNCHANGED <<dropzone, dest, exceptRouter>>

FileAt(dz, name) == CHOOSE f \in dz : f.name = name

\* one round of the loop of route_files: route_single_file and the
\* failed_files bookkeeping
route_single_file ==
    /\ router.pc = "routing"
    /\ router.files # <<>>
    /\ \E fault \in (IF router.faults < MaxFaults THEN RouterFaults ELSE {"none"}) :
         LET file == FileAt(dropzone, Head(router.files))
             r == RouteSingle(file, dropzone, dest, fault)
         IN  /\ dropzone' = r.dropzone
             /\ dest' = r.dest
             /\ router' = [router EXCEPT
                    !.files = Tail(router.files),
                    !.faults = IF fault = "none" THEN @ ELSE @ + 1,
                    !.fault = fault,
                    !.outcome = r.outcome,
                    !.routed_count = IF r.outcome = "routed" THEN @ + 1 ELSE @,
                    !.duplicates_handled =
                        IF r.outcome \in {"duplicate", "duplicate_error"} THEN @ + 1 ELSE @,
                    !.warnings = IF r.outcome = "invalid" THEN Append(@, file.name) ELSE @,
                    !.errors = IF r.outcome \in {"error", "duplicate_error"}
                               THEN Append(@, file.name) ELSE @,
                    !.failed_files = IF r.success THEN @ ELSE Append(@, file.name)]
    /\ UNCHANGED exceptRouter

\* the end of route_files: len(self.errors) == 0
route_files_finish ==
    /\ router.pc = "routing"
    /\ router.files = <<>>
    /\ router' = [router EXCEPT !.pc = "done",
                     !.result = IF router.errors = <<>> THEN "true" ELSE "false"]
    /\ UNCHANGED <<dropzone, dest, exceptRouter>>

\* the next run of the router: a new FileRouter on the folders as they are
router_main ==
    /\ router.pc = "done"
    /\ router' = FileRouter
    /\ UNCHANGED <<dropzone, dest, exceptRouter>>

RouterNext ==
    \/ route_files_begin
    \/ route_single_file
    \/ route_files_finish
    \/ router_main


(***************************************************************************)
(* Retrying upload orchestrator (upload_backup.py)                         *)
(***************************************************************************)

\* MAX_RETRIES of upload_backup.py
UPLOAD_MAX_RETRIES == 3

\* the *.zip files of the backup directory: name, mtime, size (0: empty) and
\* whether the name is a bundle name, {prefix}_{timestamp}.zip (the router
\* moves every other .zip of the DropZone into this directory too)
ZipFiles == [name : BundleNames, mtime : Times, size : 0..1, bundle : BOOLEAN]
\* a directory holds at most one file of each name, or does not exist
BackupDirs ==
    {[exists |-> TRUE,
      files |-> {[name |-> n, mtime |-> pick[n].mtime, size |-> pick[n].size,
                  bundle |-> pick[n].bundle] : n \in held}] :
        held \in SUBSET BundleNames,
        pick \in [BundleNames -> [mtime : Times, size : 0..1, bundle : BOOLEAN]]}
        \cup {[exists |-> FALSE, files |-> {}]}

NoFile == [name |-> 0, mtime |-> 0, size |-> 0, bundle |-> FALSE]

\* max(backup_files, key=st_mtime) over backup_dir.glob("*.zip"): among
\* equal mtimes the first one glob yields
latest_backup(backup_files) ==
    {f \in backup_files : \A g \in backup_files : g.mtime <= f.mtime}

\* find_latest_backup of upload_backup.py: None for a missing directory, for
\* a directory without *.zip and for a latest file of size 0
find_latest_backup(backup_dir) ==
    IF ~backup_dir.exists THEN {[reason |-> "missing", file |-> NoFile]}
    ELSE IF backup_dir.files = {} THEN {[reason |-> "none", file |-> NoFile]}
    ELSE {[reason |-> IF latest.size = 0 THEN "empty" ELSE "found", file |-> latest] :
            latest \in latest_backup(backup_dir.files)}

\* find_latest_backup of upload_backup_chunked.py: the same function
chunked_find_latest_backup(backup_dir) == find_latest_backup(backup_dir)

\* the search of simple_upload: it does not look at the size
simple_find_latest(backup_dir) ==
    IF ~backup_dir.exists THEN {[reason |-> "missing", file |-> NoFile]}
    ELSE IF backup_dir.files = {} THEN {[reason |-> "none", file |-> NoFile]}
    ELSE {[reason |-> "found", file |-> latest] :
            latest \in latest_backup(backup_dir.files)}

\* what provider.authenticate() can do: the remote variants return True or
\* raise, the local one returns True, the declared result is a bool
AuthOutcomes == {"true", "false", "raise"}

\* what provider.upload_backup() returns: a file id, or None (it catches
\* every exception of upload_file)
UploadOutcomes == {"id", "none"}

OrchestratorVariants == {"retry", "simple", "chunked"}

NoOrchRun == [variant |-> "retry", pc |-> "idle",
              backup_dir |-> [exists |-> FALSE, files |-> {}],
              latest |-> NoFile, attempt |-> 0, calls |-> <<>>, result |-> "none"]

RetryState == orch \in {[NoOrchRun EXCEPT !.backup_dir = dir] : dir \in BackupDirs}

\* run_backup_upload up to the retry loop: initialize_storage, then
\* find_latest_backup; either failing ends the run with False
run_backup_upload_begin ==
    /\ orch.variant = "retry"
    /\ orch.pc = "idle"
    /\ \E initialized \in BOOLEAN, latest \in find_latest_backup(orch.backup_dir) :
         orch' = IF ~initialized
                 THEN [orch EXCEPT !.pc = "done", !.result = "false",
                                   !.calls = <<"initialize_storage:none">>]
                 ELSE IF latest.reason # "found"
                 THEN [orch EXCEPT !.pc = "done", !.result = "false",
                                   !.calls = <<"initialize_storage", "find_latest_backup:none">>]
                 ELSE [orch EXCEPT !.pc = "attempt", !.latest = latest.file,
                                   !.calls = <<"initialize_storage", "find_latest_backup">>]
    /\ UNCHANGED exceptRetry

\* an end of attempt that sleeps even when no attempt is left
NextAttempt_sleep_always(o, calls) ==
    IF o.attempt < UPLOAD_MAX_RETRIES - 1
    THEN [o EXCEPT !.attempt = @ + 1, !.calls = Append(calls, "sleep")]
    ELSE [o EXCEPT !.pc = "done", !.result = "false", !.calls = Append(calls, "sleep")]

\* what the end of a failed attempt does: sleep and go round again, or give up
NextAttempt(o, calls) ==
    IF o.attempt < UPLOAD_MAX_RETRIES - 1
    THEN [o EXCEPT !.attempt = @ + 1, !.calls = Append(calls, "sleep")]
    ELSE [o EXCEPT !.pc = "done", !.result = "false", !.calls = calls]

\* one round of the loop of upload_backup_with_retry
upload_attempt(o, auth, upload) ==
    IF auth = "false"
    THEN [o EXCEPT !.pc = "done", !.result = "false",
                   !.calls = Append(o.calls, "authenticate:false")]
    ELSE IF auth = "raise"
    THEN NextAttempt(o, Append(o.calls, "authenticate:raise"))
    ELSE IF upload = "id"
    THEN [o EXCEPT !.pc = "uploaded",
                   !.calls = o.calls \o <<"authenticate:true", "upload_backup:id">>]
    ELSE NextAttempt(o, o.calls \o <<"authenticate:true", "upload_backup:none">>)

upload_backup_with_retry ==
    /\ orch.variant = "retry"
    /\ orch.pc = "attempt"
    /\ \E auth \in AuthOutcomes, upload \in UploadOutcomes :
         orch' = upload_attempt(orch, auth, upload)
    /\ UNCHANGED exceptRetry

\* run_backup_upload after a successful upload: cleanup_old_backups(provider)
\* and get_storage_info, whose outcomes do not change the result
run_backup_upload_finish ==
    /\ orch.variant = "retry"
    /\ orch.pc = "uploaded"
    /\ orch' = [orch EXCEPT !.pc = "done", !.result = "true",
                            !.calls = orch.calls \o <<"cleanup_old_backups", "get_storage_info">>]
    /\ UNCHANGED exceptRetry

\* ---- simple_upload (upload_backup_simple.py)

\* max_attempts of simple_upload
SIMPLE_MAX_ATTEMPTS == 3

\* what provider.upload_file() can do when simple_upload calls it
SimpleUploadOutcomes == {"id", "none", "raise"}

\* simple_upload up to the loop: get_storage_provider (an exception ends the
\* run with False), then the search for the latest *.zip
simple_upload_begin ==
    /\ orch.variant = "simple"
    /\ orch.pc = "idle"
    /\ \E initialized \in BOOLEAN, latest \in simple_find_latest(orch.backup_dir) :
         orch' = IF ~initialized
                 THEN [orch EXCEPT !.pc = "done", !.result = "false",
                                   !.calls = <<"get_storage_provider:raise">>]
                 ELSE IF latest.reason # "found"
                 THEN [orch EXCEPT !.pc = "done", !.result = "false",
                                   !.calls = <<"get_storage_provider", "glob:none">>]
                 ELSE [orch EXCEPT !.pc = "attempt", !.latest = latest.file,
                                   !.calls = <<"get_storage_provider", "glob">>]
    /\ UNCHANGED exceptRetry

\* the end of a round of simple_upload's loop that did not return: sleep
\* when an exception was caught and a round is left, then the next round or,
\* after the last one, "All upload attempts failed"
SimpleNextAttempt(o, calls, caught) ==
    IF o.attempt < SIMPLE_MAX_ATTEMPTS - 1
    THEN [o EXCEPT !.attempt = @ + 1,
                   !.calls = IF caught THEN Append(calls, "sleep") ELSE calls]
    ELSE [o EXCEPT !.pc = "done", !.result = "false", !.calls = calls]

\* a round that returns False as soon as authenticate fails
simple_attempt_auth_terminal(o, auth, upload) ==
    IF auth # "true"
    THEN [o EXCEPT !.pc = "done", !.result = "false",
                   !.calls = Append(o.calls, "authenticate:" \o auth)]
    ELSE IF upload = "id"
    THEN [o EXCEPT !.pc = "done", !.result = "true",
                   !.calls = o.calls \o <<"authenticate:true", "upload_file:id">>]
    ELSE SimpleNextAttempt(o, o.calls \o <<"authenticate:true", "upload_file:" \o upload>>,
                           upload = "raise")

\* one round of the loop of simple_upload
simple_attempt(o, auth, upload) ==
    IF auth = "false"
    THEN SimpleNextAttempt(o, Append(o.calls, "authenticate:false"), FALSE)
    ELSE IF auth = "raise"
    THEN SimpleNextAttempt(o, Append(o.calls, "authenticate:raise"), TRUE)
    ELSE IF upload = "id"
    THEN [o EXCEPT !.pc = "done", !.result = "true",
                   !.calls = o.calls \o <<"authenticate:true", "upload_file:id">>]
    ELSE SimpleNextAttempt(o, o.calls \o <<"authenticate:true", "upload_file:" \o upload>>,
                           upload = "raise")

simple_upload ==
    /\ orch.variant = "simple"
    /\ orch.pc = "attempt"
    /\ \E auth \in AuthOutcomes, upload \in SimpleUploadOutcomes :
         orch' = simple_attempt(orch, auth, upload)
    /\ UNCHANGED exceptRetry

\* ---- main of upload_backup_chunked.py

\* main up to the upload: get_storage_provider, then find_latest_backup
chunked_main_begin ==
    /\ orch.variant = "chunked"
    /\ orch.pc = "idle"
    /\ \E initialized \in BOOLEAN, latest \in chunked_find_latest_backup(orch.backup_dir) :
         orch' = IF ~initialized
                 THEN [orch EXCEPT !.pc = "done", !.result = "false",
                                   !.calls = <<"get_storage_provider:raise">>]
                 ELSE IF latest.reason # "found"
                 THEN [orch EXCEPT !.pc = "done", !.result = "false",
                                   !.calls = <<"get_storage_provider", "find_latest_backup:none">>]
                 ELSE [orch EXCEPT !.pc = "attempt", !.latest = latest.file,
                                   !.calls = <<"get_storage_provider", "find_latest_backup">>]
    /\ UNCHANGED exceptRetry

\* main from ChunkedUploader(provider, backup_path) on: uploader.upload_file()
\* returns True or False and main returns the same
chunked_main ==
    /\ orch.variant = "chunked"
    /\ orch.pc = "attempt"
    /\ \E uploaded \in BOOLEAN :
         orch' = [orch EXCEPT
                    !.pc = "done",
                    !.result = IF uploaded THEN "true" ELSE "false",
                    !.calls = Append(orch.calls,
                                IF uploaded THEN "upload_chunks:true"
                                ELSE "upload_chunks:false")]
    /\ UNCHANGED exceptRetry

OrchestratorState ==
    orch \in {[NoOrchRun EXCEPT !.variant = v, !.backup_dir = dir] :
                v \in OrchestratorVariants, dir \in BackupDirs}

OrchestratorNext ==
    \/ run_backup_upload_begin
    \/ upload_backup_with_retry
    \/ run_backup_upload_finish
    \/ simple_upload_begin
    \/ simple_upload
    \/ chunked_main_begin
    \/ chunked_main

RetryNext ==
    \/ run_backup_upload_begin
    \/ upload_backup_with_retry
    \/ run_backup_upload_finish


(***************************************************************************)
(* Properties of the router and of the retrying orchestrator               *)
(***************************************************************************)

\* the loop of route_files is about to route CurrentFile
RoutingFile == router.pc = "routing" /\ router.files # <<>>
CurrentFile == FileAt(dropzone, Head(router.files))

\* the destination folder of file holds a file of its extension and content
ContentDuplicate(file) ==
    \E existing \in dest[DestFolder(file.name.ext)] :
        existing.name.ext = file.name.ext /\ existing.content = file.content

NameTaken(file) == file.name \in {x.name : x \in dest[DestFolder(file.name.ext)]}

\* C7: when the router processes a valid drop-zone file whose content equals
\* that of a same-extension file of its destination folder (and no I/O call
\* fails), the drop-zone copy is deleted, no destination folder changes, and
\* the file is counted as a handled duplicate, not as routed, not as an
\* error and not as failed.
C7_DuplicateRemovedNotRouted ==
    [][(/\ RoutingFile
        /\ validate_file_for_routing(CurrentFile)
        /\ ContentDuplicate(CurrentFile)
        /\ router' # router /\ router'.fault = "none")
       => /\ dropzone' = dropzone \ {CurrentFile}
          /\ dest' = dest
          /\ router'.duplicates_handled = router.duplicates_handled + 1
          /\ router'.routed_count = router.routed_count
          /\ router'.errors = router.errors
          /\ router'.failed_files = router.failed_files]_vars

C7_Witness ==
    /\ router.outcome = "duplicate" /\ router.fault = "none"
    /\ router.duplicates_handled = 1
    /\ FileName("report", <<>>, ".pdf") \notin {f.name : f \in dropzone}
    /\ FileName("report", <<>>, ".pdf") \notin {x.name : x \in dest["admin"]}

\* C8: when the router routes a valid file that is no content duplicate and
\* whose name exists at the destination (and no I/O call fails), every
\* destination file stays as it is, the routed file is stored as
\* {stem}_{n}{ext} for the smallest n >= 1 not present, and the drop-zone no
\* longer holds the file.
C8_CollisionGetsCounterName ==
    [][(/\ RoutingFile
        /\ validate_file_for_routing(CurrentFile)
        /\ ~ContentDuplicate(CurrentFile)
        /\ NameTaken(CurrentFile)
        /\ router' # router /\ router'.fault = "none")
       => LET file == CurrentFile
              folder == DestFolder(file.name.ext)
              taken == {x.name : x \in dest[folder]}
              n == CHOOSE k \in 1..(Cardinality(taken) + 1) :
                        /\ WithCounter(file.name, k) \notin taken
                        /\ \A m \in 1..(k - 1) : WithCounter(file.name, m) \in taken
          IN  /\ dest' = [dest EXCEPT ![folder] =
                            dest[folder] \cup {[name |-> WithCounter(file.name, n),
                                                content |-> file.content]}]
              /\ dropzone' = dropzone \ {file}
              /\ router'.routed_count = router.routed_count + 1]_vars

C8_Witness ==
    /\ router.outcome = "routed" /\ router.fault = "none"
    /\ {x.name : x \in dest["admin"]} =
          {FileName("report", <<>>, ".pdf"), FileName("report", <<1>>, ".pdf"),
           FileName("report", <<2>>, ".pdf")}
    /\ FileName("report", <<>>, ".pdf") \notin {f.name : f \in dropzone}

DropZoneNames(dz) == {x.name : x \in dz}
Arrived(folder_before, folder_after, file) ==
    \E x \in folder_after \ folder_before : x.content = file.content

\* C24: after the move call for a file, the file is counted as routed only if
\* the destination path exists and the source path no longer exists; when a
\* check fails an error is recorded for the file, also when the move call
\* returned normally, the loop goes on with the remaining files, and the
\* run's result is failure.
C24_MoveVerified ==
    /\ [][(/\ RoutingFile
           /\ router' # router
           /\ router'.outcome \in {"routed", "error"})
          => LET file == CurrentFile
                 folder == DestFolder(file.name.ext)
                 verified == /\ Arrived(dest[folder], dest'[folder], file)
                             /\ file.name \notin DropZoneNames(dropzone')
             IN  /\ router'.routed_count = router.routed_count + 1 => verified
                 /\ ~verified =>
                      /\ router'.routed_count = router.routed_count
                      /\ router'.errors = Append(router.errors, file.name)
                      /\ router'.failed_files = Append(router.failed_files, file.name)
                      /\ router'.pc = "routing" /\ router'.files = Tail(router.files)]_vars
    /\ [](router.pc = "done" /\ router.errors # <<>> => router.result = "false")

\* a run that routed one file, then moved another whose source path was back
\* in place at the check: an error is recorded for it and the run ends failed
C24_Witness ==
    /\ router.pc = "done" /\ router.result = "false"
    /\ router.fault = "source_back" /\ router.outcome = "error"
    /\ Len(router.errors) = 1 /\ router.routed_count = 1
    /\ \E x \in dropzone : \E y \in dest[DestFolder(x.name.ext)] : y = x

\* the files a run has counted, over its four counters
Counted(r) == r.routed_count + r.duplicates_handled + Len(r.warnings) + Len(r.errors)

\* C27: every file a run processes is counted in exactly one of routed,
\* duplicates-handled, warnings and errors, so each round of the loop adds one
\* to their sum, and failed_files has one entry per warning or error; also
\* when the removal of a duplicate or the move of a file fails.
C27_EachFileCountedOnce ==
    /\ [](Len(router.failed_files) = Len(router.warnings) + Len(router.errors))
    /\ [][(RoutingFile /\ router' # router) => Counted(router') = Counted(router) + 1]_vars

AuthFailed(call) == call \in {"authenticate:false", "authenticate:raise"}
AuthOrUpload(call) ==
    call \in {"authenticate:true", "authenticate:false", "authenticate:raise",
              "upload_backup:id", "upload_backup:none"}

\* C10: in the retrying orchestrator a failed authenticate (False returned
\* or an exception raised) is terminal for the run: no authenticate and no
\* upload follows it, and the run ends as failed.
C10_AuthFailureTerminal ==
    /\ \A i, j \in 1..Len(orch.calls) :
          i < j /\ AuthFailed(orch.calls[i]) => ~AuthOrUpload(orch.calls[j])
    /\ (orch.pc = "done" /\ \E i \in 1..Len(orch.calls) : AuthFailed(orch.calls[i]))
          => orch.result = "false"

(***************************************************************************)
(* Properties of the upload orchestrators                                  *)
(***************************************************************************)

CallsOf(o) == {o.calls[i] : i \in 1..Len(o.calls)}
UploadCalls == {"upload_backup:id", "upload_backup:none", "upload_file:id",
                "upload_file:none", "upload_file:raise", "upload_chunks:true",
                "upload_chunks:false"}

\* C11: the file an orchestrator variant takes as latest is a file of the
\* backup directory whose name matches the bundle pattern and whose
\* modification time is the greatest among the files matching it; a file
\* that does not match the pattern is never chosen.
C11_LatestIsNewestBundle ==
    orch.latest # NoFile
        => /\ orch.latest \in orch.backup_dir.files
           /\ orch.latest.bundle
           /\ \A g \in orch.backup_dir.files : g.bundle => g.mtime <= orch.latest.mtime

\* C18: in every orchestrator variant the provider's cleanup_old_backups is
\* called exactly when the upload succeeded: a run that reports success has
\* called it, a run that reports failure has not.
C18_PruningExactlyOnSuccess ==
    orch.pc = "done"
        => (orch.result = "true" <=> "cleanup_old_backups" \in CallsOf(orch))

\* C19: in every orchestrator variant, when the backup directory is missing,
\* holds no bundle, or its newest bundle has zero bytes, the provider's
\* upload is never called and the run fails.
C19_NoUploadWithoutBundle ==
    (\/ ~orch.backup_dir.exists
     \/ orch.backup_dir.files = {}
     \/ /\ \A f \in orch.backup_dir.files : f.bundle
        /\ \A f \in latest_backup(orch.backup_dir.files) : f.size = 0)
        => /\ CallsOf(orch) \cap UploadCalls = {}
           /\ orch.pc = "done" => orch.result = "false"

CountCalls(o, which) == Cardinality({i \in 1..Len(o.calls) : o.calls[i] \in which})
AuthCalls == {"authenticate:true", "authenticate:false", "authenticate:raise"}

\* the last call of o that is not a sleep
LastCall(o) ==
    LET at == {i \in 1..Len(o.calls) : o.calls[i] # "sleep"}
    IN  o.calls[CHOOSE i \in at : \A j \in at : j <= i]

\* C17: in simple_upload a failed authenticate inside an attempt does not end
\* the run: the loop goes to the next attempt; there are never more than 3
\* attempts, a run that entered the loop reports failure only after 3 of
\* them, and every run ends.
C17_SimpleRetriesAfterAuthFailure ==
    /\ [](orch.variant = "simple" =>
            /\ CountCalls(orch, AuthCalls) <= SIMPLE_MAX_ATTEMPTS
            /\ CountCalls(orch, UploadCalls) <= CountCalls(orch, AuthCalls)
            /\ (orch.pc = "done" /\ orch.result = "false" /\ "glob" \in CallsOf(orch))
                  => CountCalls(orch, AuthCalls) = SIMPLE_MAX_ATTEMPTS
            /\ (orch.pc = "done" /\ CountCalls(orch, AuthCalls) = SIMPLE_MAX_ATTEMPTS
                    /\ "upload_file:id" \notin CallsOf(orch))
                  => orch.result = "false")
    /\ [][(/\ orch.variant = "simple" /\ orch.pc = "attempt" /\ orch' # orch
           /\ AuthFailed(LastCall(orch'))
           /\ orch.attempt < SIMPLE_MAX_ATTEMPTS - 1)
          => orch'.pc = "attempt" /\ orch'.attempt = orch.attempt + 1]_vars
    /\ [](orch.variant = "simple" => <>(orch.pc = "done"))

C17_Witness ==
    /\ orch.variant = "simple" /\ orch.pc = "done" /\ orch.result = "false"
    /\ CountCalls(orch, AuthCalls) = SIMPLE_MAX_ATTEMPTS
    /\ orch.calls[3] = "authenticate:false"
    /\ "authenticate:true" \in CallsOf(orch)

RetryUploadCalls == {"upload_backup:id", "upload_backup:none"}

\* C20: upload_backup_with_retry always terminates: it makes at most
\* MAX_RETRIES upload attempts, sleeps between a failed attempt and the next
\* one and never after the last, makes no call after the attempt that
\* returned a file id, and returns failure when no attempt returned one.
C20_RetryTerminates ==
    /\ [](orch.variant = "retry" =>
            /\ CountCalls(orch, RetryUploadCalls) <= UPLOAD_MAX_RETRIES
            /\ CountCalls(orch, AuthCalls) <= UPLOAD_MAX_RETRIES
            /\ \A i \in 1..Len(orch.calls) :
                 /\ (orch.calls[i] = "sleep" /\ i < Len(orch.calls))
                       => orch.calls[i + 1] \in AuthCalls
                 /\ (orch.calls[i] \in AuthCalls /\ \E j \in 1..(i - 1) : orch.calls[j] \in AuthCalls)
                       => orch.calls[i - 1] = "sleep"
                 /\ orch.calls[i] = "upload_backup:id" =>
                       \A j \in (i + 1)..Len(orch.calls) :
                           orch.calls[j] \notin AuthCalls \cup RetryUploadCalls \cup {"sleep"}
            /\ (orch.pc # "attempt" /\ orch.calls # <<>>) => orch.calls[Len(orch.calls)] # "sleep"
            /\ (orch.pc = "done" /\ "upload_backup:id" \notin CallsOf(orch))
                  => orch.result = "false")
    /\ [](orch.variant = "retry" => <>(orch.pc = "done"))

C20_Witness ==
    /\ orch.variant = "retry" /\ orch.pc = "done" /\ orch.result = "false"
    /\ CountCalls(orch, {"upload_backup:none"}) = UPLOAD_MAX_RETRIES
    /\ CountCalls(orch, {"sleep"}) = UPLOAD_MAX_RETRIES - 1

(***************************************************************************)
(* Specifications                                                          *)
(***************************************************************************)

RotationIdle ==
    /\ working = {} /\ archive = {} /\ working_keep = 0 /\ archive_keep = 0
    /\ rot = NoRun

ChunkedIdle ==
    /\ bundle = [path |-> BundlePath, size |-> HalfChunk]
    /\ resume_file = NoStateFile
    /\ chunk_files = {} /\ remote_chunks = {} /\ up = Idle

ProviderIdle ==
    /\ provider = NoProvider("local") /\ store = EmptyStore /\ last = NoOp

RouterIdle ==
    /\ dropzone = {} /\ dest = [folder \in RouteFolders |-> {}] /\ router = FileRouter

RetryIdle == orch = NoOrchRun

RotationInit == RotationState /\ ChunkedIdle /\ ProviderIdle /\ RouterIdle /\ RetryIdle
RotationNext == cleanup_old_backups
SpecRotation == RotationInit /\ [][RotationNext]_vars

\* cleanup_old_backups() invoked again and again on folders of any content
SpecRotationRepeat == RotationInit /\ [][scheduled_cleanup]_vars

RotationCycleInit ==
    FreshRotationState /\ ChunkedIdle /\ ProviderIdle /\ RouterIdle /\ RetryIdle
SpecRotationCycle == RotationCycleInit /\ [][RotationCycleNext]_vars

ChunkedInit == ChunkedState /\ RotationIdle /\ ProviderIdle /\ RouterIdle /\ RetryIdle
SpecChunked == ChunkedInit /\ [][ChunkedNext]_vars

ProviderInit == ProviderState /\ RotationIdle /\ ChunkedIdle /\ RouterIdle /\ RetryIdle
SpecProvider == ProviderInit /\ [][ProviderNext]_vars

RouterInit == RouterState /\ RotationIdle /\ ChunkedIdle /\ ProviderIdle /\ RetryIdle
SpecRouter == RouterInit /\ [][RouterNext]_vars

RetryInit == RetryState /\ RotationIdle /\ ChunkedIdle /\ ProviderIdle /\ RouterIdle
SpecRetry == RetryInit /\ [][RetryNext]_vars

OrchestratorInit ==
    OrchestratorState /\ RotationIdle /\ ChunkedIdle /\ ProviderIdle /\ RouterIdle
SpecOrchestrators == OrchestratorInit /\ [][OrchestratorNext]_vars

\* every orchestrator is a sequential program that keeps running until it
\* returns
SpecOrchestratorsLive ==
    OrchestratorInit /\ [][OrchestratorNext]_vars /\ WF_vars(OrchestratorNext)

====
